---- MODULE Spec2Model ----
(***************************************************************************)
(* Subway congestion dashboard: the ETL batch job of src/src/etl.py (wide  *)
(* CSV -> long table -> persisted dataset) and the query layer of          *)
(* src/src/data.py and src/src/metrics.py over the persisted dataset.      *)
(*                                                                         *)
(* Text is modelled as a tuple of characters.  The module is written in    *)
(* ASCII, so every Hangul syllable is written as its romanisation and      *)
(* stands for ONE character: "si" is the hour sign and "bun" the minute    *)
(* sign of a time header such as <<"5","si","3","0","bun">>.  Opaque       *)
(* values (weekday, line, station, direction, period names) are strings    *)
(* holding the romanised word.                                             *)
(***************************************************************************)
EXTENDS Integers, Sequences, FiniteSets, TLC

VARIABLES
    pc,         \* position of the batch job in main()
    source,     \* the raw file under data/raw (never written by the job)
    df,         \* the wide frame returned by load_csv
    time_cols,  \* list returned by get_time_columns
    time_map,   \* dict returned by create_time_order_map
    df_long,    \* the long frame handed from stage to stage
    report,     \* what validate_data measured
    parquet,    \* the persisted dataset file
    dataset,    \* the frame load_data returned to the dashboard
    view,       \* the frame a metric is called on
    call,       \* the last query call and its arguments
    result,     \* what that call returned
    cache,      \* the entry st.cache_data holds for load_data
    reads       \* how often the persisted file has been read

etl_vars == <<pc, source, df, time_cols, time_map, df_long, report, parquet>>

\* the memo of load_data and the count of its reads of storage
load_vars == <<cache, reads>>

query_vars == <<dataset, view, call, result, load_vars>>

vars == <<etl_vars, query_vars>>

Range(s) == {s[i] : i \in DOMAIN s}

(***************************************************************************)
(* Bounds of the model.                                                    *)
(***************************************************************************)
MaxCols == 3    \* columns of the raw table besides the five id columns
MaxRows == 2    \* rows of the raw table
MaxHour == 24   \* largest hour of the single-column hour headers
MaxViewRows == 2    \* rows of the raw table behind a queried dataset
MaxOrder == 1   \* largest time_order a caller passes in a time range
MaxN == 3       \* largest n a caller passes to get_top_n_stations

(***************************************************************************)
(* Characters and numbers.                                                 *)
(***************************************************************************)
Digits == <<"0", "1", "2", "3", "4", "5", "6", "7", "8", "9">>

IsDigit(c) == \E i \in DOMAIN Digits : Digits[i] = c

DigitVal(c) == (CHOOSE i \in DOMAIN Digits : Digits[i] = c) - 1

\* int(text) for a run of decimal digits
RECURSIVE ParseInt(_)
ParseInt(ds) ==
    IF ds = <<>> THEN 0
    ELSE ParseInt(SubSeq(ds, 1, Len(ds) - 1)) * 10 + DigitVal(ds[Len(ds)])

\* str(n) for n >= 0
RECURSIVE ToDigits(_)
ToDigits(n) ==
    IF n < 10 THEN <<Digits[n + 1]>>
    ELSE ToDigits(n \div 10) \o <<Digits[(n % 10) + 1]>>

\* f"{n:02d}": at least two digits, zero padded
Format02d(n) == IF n < 10 THEN <<"0">> \o ToDigits(n) ELSE ToDigits(n)

\* length of the longest run of digits of s that starts at position i
DigitRun(s, i) ==
    CHOOSE n \in 0..Len(s) :
        /\ \A k \in 0..(n - 1) : i + k <= Len(s) /\ IsDigit(s[i + k])
        /\ (i + n <= Len(s) => ~IsDigit(s[i + n]))

\* re.match(r'(\d+)si(\d+)bun', s): anchored at the start, not at the end
TimeMatch(s) ==
    LET n1 == DigitRun(s, 1)
        p  == n1 + 1
        n2 == DigitRun(s, p + 1)
        q  == p + n2 + 1
        ok == /\ n1 >= 1
              /\ p <= Len(s)
              /\ s[p] = "si"
              /\ n2 >= 1
              /\ q <= Len(s)
              /\ s[q] = "bun"
    IN  [ok     |-> ok,
         hour   |-> IF ok THEN SubSeq(s, 1, n1) ELSE <<>>,
         minute |-> IF ok THEN SubSeq(s, p + 1, p + n2) ELSE <<>>]

(***************************************************************************)
(* etl.py: pure stages.                                                    *)
(***************************************************************************)
COL_WEEKDAY    == <<"yo", "il", "gu", "bun">>
COL_LINE       == <<"ho", "seon">>
COL_STATION_ID == <<"yeok", "beon", "ho">>
COL_STATION    == <<"chul", "bal", "yeok">>
COL_DIRECTION  == <<"sang", "ha", "gu", "bun">>

id_cols == <<COL_WEEKDAY, COL_LINE, COL_STATION_ID, COL_STATION, COL_DIRECTION>>

\* get_time_columns: the columns whose name the pattern matches, in header order
get_time_columns(columns) == SelectSeq(columns, LAMBDA col : TimeMatch(col).ok)

normalize_time_slot(time_str) ==
    LET m == TimeMatch(time_str)
    IN  IF m.ok
        THEN Format02d(ParseInt(m.hour)) \o <<":">> \o Format02d(ParseInt(m.minute))
        ELSE time_str

\* the map with orders counted from 1 (enumerate(time_cols, 1))
create_time_order_map_from1(cols) ==
    [c \in Range(cols) |->
        [normalized |-> normalize_time_slot(c),
         order |-> CHOOSE i \in DOMAIN cols :
                        cols[i] = c /\ \A j \in DOMAIN cols : cols[j] = c => j <= i]]

\* the dict built by the enumerate loop: a repeated key keeps its last index
create_time_order_map(cols) ==
    [c \in Range(cols) |->
        [normalized |-> normalize_time_slot(c),
         order |-> (CHOOSE i \in DOMAIN cols :
                        cols[i] = c /\ \A j \in DOMAIN cols : cols[j] = c => j <= i) - 1]]

\* DataFrame.melt: one long row per (time column, wide row), column-major
unpivot_time_columns(frame, cols) ==
    LET N == Len(frame.rows)
    IN  [k \in 1..(N * Len(cols)) |->
            LET row == frame.rows[((k - 1) % N) + 1]
                col == cols[((k - 1) \div N) + 1]
            IN  [yoilgubun      |-> row[COL_WEEKDAY],
                 hoseon         |-> row[COL_LINE],
                 yeokbeonho     |-> row[COL_STATION_ID],
                 chulbalyeok    |-> row[COL_STATION],
                 sanghagubun    |-> row[COL_DIRECTION],
                 time_slot_raw  |-> col,
                 congestion_raw |-> row[col]]]

\* str.strip(): drop leading and trailing blanks
RECURSIVE Strip(_)
Strip(s) ==
    IF s = <<>> THEN s
    ELSE IF Head(s) = " " THEN Strip(Tail(s))
    ELSE IF s[Len(s)] = " " THEN Strip(SubSeq(s, 1, Len(s) - 1))
    ELSE s

NaN == [isna |-> TRUE, v |-> 0]

\* pd.to_numeric(errors='coerce') on a plain decimal literal
\* [sign] digits [ "." digits ] with at least one digit; anything else is NaN.
\* The value is kept in tenths (the cells of CellPool have at most one
\* fractional digit).
to_numeric(s) ==
    LET signed == s # <<>> /\ Head(s) \in {"-", "+"}
        body   == IF signed THEN Tail(s) ELSE s
        n1     == DigitRun(body, 1)
        dot    == n1 + 1 <= Len(body) /\ body[n1 + 1] = "."
        n2     == IF dot THEN DigitRun(body, n1 + 2) ELSE 0
        used   == n1 + (IF dot THEN 1 + n2 ELSE 0)
        tenths == ParseInt(SubSeq(body, 1, n1)) * 10
                    + (IF n2 >= 1 THEN DigitVal(body[n1 + 2]) ELSE 0)
    IN  IF n1 + n2 >= 1 /\ used = Len(body)
        THEN [isna |-> FALSE,
              v |-> IF signed /\ Head(s) = "-" THEN 0 - tenths ELSE tenths]
        ELSE NaN

\* clean_congestion_values, one row: strip the raw text, then parse it
clean_row(r) ==
    LET stripped == Strip(r.congestion_raw)
    IN  [yoilgubun      |-> r.yoilgubun,
         hoseon         |-> r.hoseon,
         yeokbeonho     |-> r.yeokbeonho,
         chulbalyeok    |-> r.chulbalyeok,
         sanghagubun    |-> r.sanghagubun,
         time_slot_raw  |-> r.time_slot_raw,
         congestion_raw |-> stripped,
         congestion     |-> to_numeric(stripped)]

\* a cleaning stage that drops the rows it could not parse (dropna)
clean_congestion_values_dropna(frame) ==
    SelectSeq([k \in DOMAIN frame |-> clean_row(frame[k])],
              LAMBDA r : ~r.congestion.isna)

\* column assignments keep every row, in place
clean_congestion_values(frame) == [k \in DOMAIN frame |-> clean_row(frame[k])]

\* the period table with the dawn bucket widened to close the 1-4 gap
get_period_no_gap(hour) ==
    IF 0 <= hour /\ hour < 1 THEN "simya"
    ELSE IF 1 <= hour /\ hour < 7 THEN "saebyeok"
    ELSE IF 7 <= hour /\ hour < 9 THEN "chulgeun"
    ELSE IF 9 <= hour /\ hour < 12 THEN "ojeon"
    ELSE IF 12 <= hour /\ hour < 18 THEN "ohu"
    ELSE IF 18 <= hour /\ hour < 20 THEN "toegeun"
    ELSE IF 20 <= hour /\ hour < 24 THEN "jeonyeok"
    ELSE "gita"

\* the inner get_period of add_time_features
get_period(hour) ==
    IF 0 <= hour /\ hour < 1 THEN "simya"
    ELSE IF 5 <= hour /\ hour < 7 THEN "saebyeok"
    ELSE IF 7 <= hour /\ hour < 9 THEN "chulgeun"
    ELSE IF 9 <= hour /\ hour < 12 THEN "ojeon"
    ELSE IF 12 <= hour /\ hour < 18 THEN "ohu"
    ELSE IF 18 <= hour /\ hour < 20 THEN "toegeun"
    ELSE IF 20 <= hour /\ hour < 24 THEN "jeonyeok"
    ELSE "gita"

\* str.split(':').str[0]: the text before the first colon
BeforeColon(s) ==
    LET stops == {i \in DOMAIN s : s[i] = ":"}
    IN  IF stops = {} THEN s
        ELSE SubSeq(s, 1, (CHOOSE i \in stops : \A j \in stops : i <= j) - 1)

\* add_time_features, one row: time_slot and time_order by lookup in the
\* map, hour parsed back from the normalised text, period from hour
feature_row(r, tmap) ==
    LET slot == tmap[r.time_slot_raw].normalized
        hour == ParseInt(BeforeColon(slot))
    IN  [yoilgubun      |-> r.yoilgubun,
         hoseon         |-> r.hoseon,
         yeokbeonho     |-> r.yeokbeonho,
         chulbalyeok    |-> r.chulbalyeok,
         sanghagubun    |-> r.sanghagubun,
         time_slot_raw  |-> r.time_slot_raw,
         congestion_raw |-> r.congestion_raw,
         congestion     |-> r.congestion,
         time_slot      |-> slot,
         time_order     |-> tmap[r.time_slot_raw].order,
         hour           |-> hour,
         period         |-> get_period(hour)]

add_time_features(frame, tmap) ==
    [k \in DOMAIN frame |-> feature_row(frame[k], tmap)]

\* the flag without the isna() half
is_missing_zero_only(c) == ~c.isna /\ c.v = 0

\* (congestion == 0.0) | congestion.isna(); NaN == 0.0 is False
is_missing_of(c) == (~c.isna /\ c.v = 0) \/ c.isna

missing_row(r) ==
    [yoilgubun      |-> r.yoilgubun,
     hoseon         |-> r.hoseon,
     yeokbeonho     |-> r.yeokbeonho,
     chulbalyeok    |-> r.chulbalyeok,
     sanghagubun    |-> r.sanghagubun,
     time_slot_raw  |-> r.time_slot_raw,
     congestion_raw |-> r.congestion_raw,
     congestion     |-> r.congestion,
     time_slot      |-> r.time_slot,
     time_order     |-> r.time_order,
     hour           |-> r.hour,
     period         |-> r.period,
     is_missing     |-> is_missing_of(r.congestion)]

\* handle_missing_values only adds the flag column
handle_missing_values(frame) == [k \in DOMAIN frame |-> missing_row(frame[k])]

rename_row(r) ==
    [weekday        |-> r.yoilgubun,
     line           |-> r.hoseon,
     station_id     |-> r.yeokbeonho,
     station_name   |-> r.chulbalyeok,
     direction      |-> r.sanghagubun,
     time_slot_raw  |-> r.time_slot_raw,
     congestion_raw |-> r.congestion_raw,
     congestion     |-> r.congestion,
     time_slot      |-> r.time_slot,
     time_order     |-> r.time_order,
     hour           |-> r.hour,
     period         |-> r.period,
     is_missing     |-> r.is_missing]

rename_columns(frame) == [k \in DOMAIN frame |-> rename_row(frame[k])]

\* code-point order of the opaque strings that are ever sorted (each kind
\* ascending: toyoil < pyeongil, sangseon < haseon as in Hangul)
StrOrder == <<"1hoseon", "2hoseon", "A", "B", "toyoil", "pyeongil", "sangseon", "haseon", "gita">>

StrRank(x) == CHOOSE i \in DOMAIN StrOrder : StrOrder[i] = x

\* a < b for two tuples of integers of the same length
LexLess(a, b) ==
    \E i \in DOMAIN a : a[i] < b[i] /\ \A j \in 1..(i - 1) : a[j] = b[j]

\* DataFrame.sort_values on several keys: a stable sort (equal keys keep
\* their order); keys[i] is the tuple of sort keys of rows[i]
StableSort(rows, keys) ==
    LET n == Len(rows)
        pos(i) == 1 + Cardinality({j \in 1..n :
                        \/ LexLess(keys[j], keys[i])
                        \/ (keys[j] = keys[i] /\ j < i)})
    IN  [p \in 1..n |-> rows[CHOOSE i \in 1..n : pos(i) = p]]

\* validate_data: a read-only pass; what it measures is kept as the report
validate_data(frame) ==
    LET keys == {<<frame[k].weekday, frame[k].line, frame[k].station_name,
                   frame[k].direction>> : k \in DOMAIN frame}
        size(g) == Cardinality({k \in DOMAIN frame :
                        <<frame[k].weekday, frame[k].line, frame[k].station_name,
                          frame[k].direction>> = g})
    IN  [unique_time_slots |-> Cardinality({frame[k].time_slot : k \in DOMAIN frame}),
         unique_stations   |-> Cardinality({frame[k].station_name : k \in DOMAIN frame}),
         group_counts      |-> {size(g) : g \in keys},
         over_100          |-> Cardinality({k \in DOMAIN frame :
                                    ~frame[k].congestion.isna
                                    /\ frame[k].congestion.v > 100 * 10}),
         shape             |-> Len(frame)]

\* save_parquet: keep eleven columns, sort, write without the index
save_parquet(frame) ==
    LET df_final ==
            [k \in DOMAIN frame |->
                [weekday      |-> frame[k].weekday,
                 line         |-> frame[k].line,
                 station_id   |-> frame[k].station_id,
                 station_name |-> frame[k].station_name,
                 direction    |-> frame[k].direction,
                 time_slot    |-> frame[k].time_slot,
                 time_order   |-> frame[k].time_order,
                 congestion   |-> frame[k].congestion,
                 hour         |-> frame[k].hour,
                 period       |-> frame[k].period,
                 is_missing   |-> frame[k].is_missing]]
        key(r) == <<StrRank(r.line), r.station_id, StrRank(r.weekday),
                    StrRank(r.direction), r.time_order>>
    IN  StableSort(df_final, [k \in DOMAIN df_final |-> key(df_final[k])])

\* the whole transform of main(), from the loaded frame to the written rows
etl_output(frame) ==
    LET cols == get_time_columns(frame.columns)
    IN  save_parquet(rename_columns(handle_missing_values(
            add_time_features(
                clean_congestion_values(unpivot_time_columns(frame, cols)),
                create_time_order_map(cols)))))

(***************************************************************************)
(* Inputs of the batch job: raw tables.                                    *)
(***************************************************************************)
H530   == <<"5", "si", "3", "0", "bun">>
H0530  == <<"0", "5", "si", "3", "0", "bun">>
H530_1 == <<"5", "si", "3", "0", "bun", ".", "1">>
H000   == <<"0", "si", "0", "0", "bun">>
BIGO   == <<"bi", "go">>
H5_BUN == <<"5", "si", "bun">>

HeaderPool == {H530, H0530, H530_1, H000, BIGO, H5_BUN}

\* one header per hour, "<h>si00bun"
HourHeaders == {ToDigits(h) \o <<"si", "0", "0", "bun">> : h \in 0..MaxHour}

\* the columns besides the id columns: read_csv makes column names unique
ExtraLists ==
    {x \in UNION {[1..n -> HeaderPool] : n \in 0..MaxCols} :
        \A i, j \in DOMAIN x : x[i] = x[j] => i = j}
    \cup {<<h>> : h \in HourHeaders}

\* cell texts: numbers, padded numbers, zeros, unparsable text, an empty cell
\* (read as NaN and printed "nan" by astype(str)) and a value above 100
CellPool == << <<"1", "0">>, <<"x">>, <<" ", "3", "0", ".", "5", " ">>,
               <<"0", ".", "0">>, <<"n", "a", "n">>, <<"1", "2", "0">>,
               <<"-", "0">> >>

\* the cells of CellPool that are no number
Unparsable == {<<"x">>, <<"n", "a", "n">>}

IdPool == << [weekday |-> "pyeongil", line |-> "1hoseon", station_id |-> 150,
              station_name |-> "A", direction |-> "sangseon"],
             [weekday |-> "toyoil", line |-> "2hoseon", station_id |-> 201,
              station_name |-> "B", direction |-> "haseon"],
             [weekday |-> "pyeongil", line |-> "1hoseon", station_id |-> 151,
              station_name |-> "B", direction |-> "sangseon"] >>

IndexOf(seq, x) == CHOOSE i \in DOMAIN seq : seq[i] = x

\* a raw table of R rows: ids and cells are taken from the pools in turn,
\* starting at offset o
Table(extra, R, o) ==
    LET T == Len(extra)
    IN  [columns |-> id_cols \o extra,
         rows |-> [i \in 1..R |->
            LET id == IdPool[((o + i - 1) % Len(IdPool)) + 1]
            IN  [c \in Range(id_cols \o extra) |->
                    IF c = COL_WEEKDAY THEN id.weekday
                    ELSE IF c = COL_LINE THEN id.line
                    ELSE IF c = COL_STATION_ID THEN id.station_id
                    ELSE IF c = COL_STATION THEN id.station_name
                    ELSE IF c = COL_DIRECTION THEN id.direction
                    ELSE CellPool[((o + (i - 1) * T + IndexOf(extra, c) - 1)
                                        % Len(CellPool)) + 1]]]]

EmptyFrame == [columns |-> <<>>, rows |-> <<>>]

RawTables ==
    {Table(extra, R, o) : extra \in ExtraLists, R \in 0..MaxRows,
                          o \in 0..(Len(CellPool) - 1)}

Encodings == <<"cp949", "utf-8">>

Sources ==
    {[exists |-> FALSE, decodes |-> {}, table |-> EmptyFrame],
     [exists |-> TRUE, decodes |-> {}, table |-> EmptyFrame]}
    \cup {[exists |-> TRUE, decodes |-> {e}, table |-> t] :
            e \in Range(Encodings), t \in RawTables}

NoFile == [exists |-> FALSE, rows |-> <<>>]

NoReport == [unique_time_slots |-> 0, unique_stations |-> 0, group_counts |-> {},
             over_100 |-> 0, shape |-> 0]

NoCall == [op |-> "none"]

\* st.cache_data holds no entry for load_data
NoCache == [some |-> FALSE, val |-> <<>>]

(***************************************************************************)
(* The batch job: one action per step of the script.                       *)
(***************************************************************************)
Init ==
    /\ pc = "start"
    /\ source \in Sources
    /\ df = EmptyFrame
    /\ time_cols = <<>>
    /\ time_map = <<>>
    /\ df_long = <<>>
    /\ report = NoReport
    /\ parquet = NoFile
    /\ dataset = <<>>
    /\ view = <<>>
    /\ call = NoCall
    /\ result = <<>>
    /\ cache = NoCache
    /\ reads = 0

\* RAW_DATA_PATH = find_csv_file(): raises when data/raw holds no CSV
find_csv_file ==
    /\ pc = "start"
    /\ pc' = IF source.exists THEN "found" ELSE "aborted"
    /\ UNCHANGED <<source, df, time_cols, time_map, df_long, report, parquet>>
    /\ UNCHANGED query_vars

\* load_csv: the first encoding that decodes the file, else ValueError
load_csv ==
    /\ pc = "found"
    /\ IF \E i \in DOMAIN Encodings : Encodings[i] \in source.decodes
       THEN pc' = "loaded" /\ df' = source.table
       ELSE pc' = "aborted" /\ df' = df
    /\ UNCHANGED <<source, time_cols, time_map, df_long, report, parquet>>
    /\ UNCHANGED query_vars

MainGetTimeColumns ==
    /\ pc = "loaded"
    /\ time_cols' = get_time_columns(df.columns)
    /\ pc' = "time_cols"
    /\ UNCHANGED <<source, df, time_map, df_long, report, parquet>>
    /\ UNCHANGED query_vars

MainCreateTimeOrderMap ==
    /\ pc = "time_cols"
    /\ time_map' = create_time_order_map(time_cols)
    /\ pc' = "time_map"
    /\ UNCHANGED <<source, df, time_cols, df_long, report, parquet>>
    /\ UNCHANGED query_vars

MainUnpivot ==
    /\ pc = "time_map"
    /\ df_long' = unpivot_time_columns(df, time_cols)
    /\ pc' = "unpivoted"
    /\ UNCHANGED <<source, df, time_cols, time_map, report, parquet>>
    /\ UNCHANGED query_vars

MainClean ==
    /\ pc = "unpivoted"
    /\ df_long' = clean_congestion_values(df_long)
    /\ pc' = "cleaned"
    /\ UNCHANGED <<source, df, time_cols, time_map, report, parquet>>
    /\ UNCHANGED query_vars

MainAddTimeFeatures ==
    /\ pc = "cleaned"
    /\ df_long' = add_time_features(df_long, time_map)
    /\ pc' = "featured"
    /\ UNCHANGED <<source, df, time_cols, time_map, report, parquet>>
    /\ UNCHANGED query_vars

MainHandleMissing ==
    /\ pc = "featured"
    /\ df_long' = handle_missing_values(df_long)
    /\ pc' = "flagged"
    /\ UNCHANGED <<source, df, time_cols, time_map, report, parquet>>
    /\ UNCHANGED query_vars

MainRename ==
    /\ pc = "flagged"
    /\ df_long' = rename_columns(df_long)
    /\ pc' = "renamed"
    /\ UNCHANGED <<source, df, time_cols, time_map, report, parquet>>
    /\ UNCHANGED query_vars

MainValidate ==
    /\ pc = "renamed"
    /\ report' = validate_data(df_long)
    /\ pc' = "validated"
    /\ UNCHANGED <<source, df, time_cols, time_map, df_long, parquet>>
    /\ UNCHANGED query_vars

MainSave ==
    /\ pc = "validated"
    /\ parquet' = [exists |-> TRUE, rows |-> save_parquet(df_long)]
    /\ pc' = "saved"
    /\ UNCHANGED <<source, df, time_cols, time_map, df_long, report>>
    /\ UNCHANGED query_vars

Next ==
    \/ find_csv_file
    \/ load_csv
    \/ MainGetTimeColumns
    \/ MainCreateTimeOrderMap
    \/ MainUnpivot
    \/ MainClean
    \/ MainAddTimeFeatures
    \/ MainHandleMissing
    \/ MainRename
    \/ MainValidate
    \/ MainSave

Spec == Init /\ [][Next]_vars

(***************************************************************************)
(* data.py: loading and filtering.                                         *)
(***************************************************************************)
\* pd.read_parquet of a file written with index=False: a fresh RangeIndex
read_parquet(rows) ==
    [k \in DOMAIN rows |->
        [index        |-> k - 1,
         weekday      |-> rows[k].weekday,
         line         |-> rows[k].line,
         station_id   |-> rows[k].station_id,
         station_name |-> rows[k].station_name,
         direction    |-> rows[k].direction,
         time_slot    |-> rows[k].time_slot,
         time_order   |-> rows[k].time_order,
         congestion   |-> rows[k].congestion,
         hour         |-> rows[k].hour,
         period       |-> rows[k].period,
         is_missing   |-> rows[k].is_missing]]

\* optional arguments: None, or a value (a string, a list, a pair)
NoneStr == [some |-> FALSE, val |-> ""]

NoneList == [some |-> FALSE, val |-> <<>>]

Some(x) == [some |-> TRUE, val |-> x]

\* Python truth of an optional string
TruthyStr(a) == a.some /\ a.val # ""

\* Python truth of an optional list or tuple
TruthyList(a) == a.some /\ a.val # <<>>

\* the range test with the end left out
in_time_range_open(rows, time_range) ==
    SelectSeq(rows, LAMBDA r : /\ r.time_order >= time_range.val[1]
                               /\ r.time_order < time_range.val[2])

\* rows[(rows.time_order >= start) & (rows.time_order <= end)]
in_time_range(rows, time_range) ==
    SelectSeq(rows, LAMBDA r : /\ r.time_order >= time_range.val[1]
                               /\ r.time_order <= time_range.val[2])

\* a filter in which an empty list selects nothing (lines is not None)
filter_data_empty_selects_none(frame, weekday, lines, stations, directions, time_range) ==
    LET f1 == IF TruthyStr(weekday) /\ weekday.val # "jeonche"
              THEN SelectSeq(frame, LAMBDA r : r.weekday = weekday.val)
              ELSE frame
        f2 == IF lines.some
              THEN SelectSeq(f1, LAMBDA r : r.line \in Range(lines.val))
              ELSE f1
        f3 == IF stations.some
              THEN SelectSeq(f2, LAMBDA r : r.station_name \in Range(stations.val))
              ELSE f2
        f4 == IF directions.some
              THEN SelectSeq(f3, LAMBDA r : r.direction \in Range(directions.val))
              ELSE f3
    IN  IF TruthyList(time_range) THEN in_time_range(f4, time_range) ELSE f4

\* filter_data: a copy of the frame, narrowed by each active predicate in
\* turn; boolean indexing keeps the rows' order and index labels
filter_data(frame, weekday, lines, stations, directions, time_range) ==
    LET f1 == IF TruthyStr(weekday) /\ weekday.val # "jeonche"
              THEN SelectSeq(frame, LAMBDA r : r.weekday = weekday.val)
              ELSE frame
        f2 == IF TruthyList(lines) /\ Len(lines.val) > 0
              THEN SelectSeq(f1, LAMBDA r : r.line \in Range(lines.val))
              ELSE f1
        f3 == IF TruthyList(stations) /\ Len(stations.val) > 0
              THEN SelectSeq(f2, LAMBDA r : r.station_name \in Range(stations.val))
              ELSE f2
        f4 == IF TruthyList(directions) /\ Len(directions.val) > 0
              THEN SelectSeq(f3, LAMBDA r : r.direction \in Range(directions.val))
              ELSE f3
    IN  IF TruthyList(time_range) THEN in_time_range(f4, time_range) ELSE f4

\* code-point order of the characters of a normalised slot: digits, then ":"
CharRank(c) == IF IsDigit(c) THEN DigitVal(c) ELSE 10

\* get_time_order_mapping: the distinct (time_slot, time_order) pairs in
\* their order of first appearance, made into a dict: a slot that occurs in
\* several pairs keeps the order of its last pair
get_time_order_mapping(frame) ==
    LET firsts == SelectSeq([k \in DOMAIN frame |-> k], LAMBDA k :
                    \A j \in 1..(k - 1) :
                        <<frame[j].time_slot, frame[j].time_order>>
                            # <<frame[k].time_slot, frame[k].time_order>>)
        last(slot) == CHOOSE i \in DOMAIN firsts :
                        /\ frame[firsts[i]].time_slot = slot
                        /\ \A j \in DOMAIN firsts :
                                frame[firsts[j]].time_slot = slot => j <= i
    IN  [slot \in {frame[k].time_slot : k \in DOMAIN frame} |->
            frame[firsts[last(slot)]].time_order]

\* the bytes of a normalised slot in code-point order
SlotKey(slot) == [i \in DOMAIN slot |-> CharRank(slot[i])]

\* prepare_download_data: df[cols].copy() keeps eight columns and the index
\* labels; sort_values on five keys, the last one the time_slot text (the
\* slots of a dataset are all "HH:MM", five characters)
prepare_download_data(frame) ==
    LET download_df ==
            [k \in DOMAIN frame |->
                [index        |-> frame[k].index,
                 weekday      |-> frame[k].weekday,
                 line         |-> frame[k].line,
                 station_name |-> frame[k].station_name,
                 direction    |-> frame[k].direction,
                 time_slot    |-> frame[k].time_slot,
                 congestion   |-> frame[k].congestion,
                 hour         |-> frame[k].hour,
                 period       |-> frame[k].period]]
        key(r) == <<StrRank(r.line), StrRank(r.station_name), StrRank(r.weekday),
                    StrRank(r.direction)>> \o SlotKey(r.time_slot)
    IN  StableSort(download_df, [k \in DOMAIN download_df |-> key(download_df[k])])

\* a download that sorts the frame it was given (sort_values(inplace=True)
\* without the copy)
argument_after_sort_inplace(op, frame) ==
    IF op = "prepare_download_data"
    THEN LET key(r) == <<StrRank(r.line), StrRank(r.station_name), StrRank(r.weekday),
                         StrRank(r.direction)>> \o SlotKey(r.time_slot)
         IN  StableSort(frame, [k \in DOMAIN frame |-> key(frame[k])])
    ELSE frame

\* the frame passed to a query function, as the call leaves it.  Every
\* function first derives a frame of its own (df.copy(), df[mask].copy(),
\* df[cols].copy()); its later statements (boolean indexing, groupby,
\* sort_values without inplace, .columns = and ['period'] = on the grouped
\* frame) act on that frame, never on the argument
argument_after(op, frame) == frame

(***************************************************************************)
(* metrics.py.  Congestion is kept in tenths; an aggregate is a fraction   *)
(* [num, den] with den > 0, compared by cross-multiplication.              *)
(***************************************************************************)
\* df[~df['is_missing']]
valid_rows(frame) == SelectSeq(frame, LAMBDA r : ~r.is_missing)

FracGt(a, b) == a.num * b.den > b.num * a.den

FracEq(a, b) == a.num * b.den = b.num * a.den

RECURSIVE SeqSum(_)
SeqSum(xs) == IF xs = <<>> THEN 0 ELSE Head(xs) + SeqSum(Tail(xs))

SeqMax(xs) == CHOOSE m \in Range(xs) : \A x \in Range(xs) : x <= m

Sentinel ==
    [max_value    |-> [isna |-> FALSE, v |-> 0],
     time_slot    |-> <<"-">>,
     station_name |-> "-",
     line         |-> "-",
     direction    |-> "-",
     weekday      |-> "-"]

\* Series.idxmax over the last position holding the maximum
idxmax_last(rows) ==
    LET m == SeqMax([k \in DOMAIN rows |-> rows[k].congestion.v])
        last == CHOOSE k \in DOMAIN rows :
                    /\ rows[k].congestion.v = m
                    /\ \A j \in DOMAIN rows : rows[j].congestion.v = m => j <= k
    IN  rows[last].index

\* Series.idxmax: the index label of the first position holding the maximum
idxmax(rows) ==
    LET m == SeqMax([k \in DOMAIN rows |-> rows[k].congestion.v])
        first == CHOOSE k \in DOMAIN rows :
                    /\ rows[k].congestion.v = m
                    /\ \A j \in DOMAIN rows : rows[j].congestion.v = m => k <= j
    IN  rows[first].index

\* valid_df.loc[label]: the row carrying that index label (labels of a
\* frame read from parquet, and of its filtered views, are unique)
loc(rows, label) == CHOOSE r \in Range(rows) : r.index = label

\* the KPI computed without leaving the missing rows out
get_max_congestion_info_all_rows(frame) ==
    LET numeric == SelectSeq(frame, LAMBDA r : ~r.congestion.isna)
    IN  IF Len(numeric) = 0 THEN Sentinel
        ELSE LET max_row == loc(numeric, idxmax(numeric))
             IN  [max_value    |-> max_row.congestion,
                  time_slot    |-> max_row.time_slot,
                  station_name |-> max_row.station_name,
                  line         |-> max_row.line,
                  direction    |-> max_row.direction,
                  weekday      |-> max_row.weekday]

get_max_congestion_info(frame) ==
    LET valid_df == valid_rows(frame)
    IN  IF Len(valid_df) = 0 THEN Sentinel
        ELSE LET max_row == loc(valid_df, idxmax(valid_df))
             IN  [max_value    |-> max_row.congestion,
                  time_slot    |-> max_row.time_slot,
                  station_name |-> max_row.station_name,
                  line         |-> max_row.line,
                  direction    |-> max_row.direction,
                  weekday      |-> max_row.weekday]

\* valid_df[(time_order >= start) & (time_order <= end)] of get_top_n_stations
top_n_time_range(rows, time_range) ==
    SelectSeq(rows, LAMBDA r : /\ r.time_order >= time_range.val[1]
                               /\ r.time_order <= time_range.val[2])

\* the group keys of groupby(['station_name', 'line']), sorted ascending
group_keys(rows) ==
    LET keys == {<<rows[k].station_name, rows[k].line>> : k \in DOMAIN rows}
        less(g, h) == LexLess(<<StrRank(g[1]), StrRank(g[2])>>,
                              <<StrRank(h[1]), StrRank(h[2])>>)
    IN  [p \in 1..Cardinality(keys) |->
            CHOOSE g \in keys : Cardinality({h \in keys : less(h, g)}) = p - 1]

\* max(), mean() or sum() of one group's congestion; any other name falls
\* back to max()
aggregate_of(values, aggregate) ==
    IF aggregate = "mean" THEN [num |-> SeqSum(values), den |-> Len(values)]
    ELSE IF aggregate = "sum" THEN [num |-> SeqSum(values), den |-> 1]
    ELSE [num |-> SeqMax(values), den |-> 1]

\* the n smallest taken instead of the n largest
nsmallest(ranking, n) ==
    LET G == Len(ranking)
        pos(i) == 1 + Cardinality({j \in 1..G :
                    \/ FracGt(ranking[i].congestion_value, ranking[j].congestion_value)
                    \/ (FracEq(ranking[j].congestion_value, ranking[i].congestion_value)
                        /\ j < i)})
        sorted == [p \in 1..G |-> ranking[CHOOSE i \in 1..G : pos(i) = p]]
    IN  IF n <= 0 THEN <<>>
        ELSE SubSeq(sorted, 1, IF n < G THEN n ELSE G)

\* Series.nlargest(n), keep='first': descending by value, equal values in
\* their order of appearance, at most n of them
nlargest(ranking, n) ==
    LET G == Len(ranking)
        pos(i) == 1 + Cardinality({j \in 1..G :
                    \/ FracGt(ranking[j].congestion_value, ranking[i].congestion_value)
                    \/ (FracEq(ranking[j].congestion_value, ranking[i].congestion_value)
                        /\ j < i)})
        sorted == [p \in 1..G |-> ranking[CHOOSE i \in 1..G : pos(i) = p]]
    IN  IF n <= 0 THEN <<>>
        ELSE SubSeq(sorted, 1, IF n < G THEN n ELSE G)

get_top_n_stations(frame, n, time_range, aggregate) ==
    LET valid0 == valid_rows(frame)
        valid_df == IF TruthyList(time_range)
                    THEN top_n_time_range(valid0, time_range)
                    ELSE valid0
        keys == group_keys(valid_df)
        ranking ==
            [p \in DOMAIN keys |->
                LET members == SelectSeq(valid_df, LAMBDA r :
                                    <<r.station_name, r.line>> = keys[p])
                IN  [station_name |-> keys[p][1],
                     line |-> keys[p][2],
                     congestion_value |->
                        aggregate_of([k \in DOMAIN members |-> members[k].congestion.v],
                                     aggregate)]]
    IN  IF Len(valid0) = 0 THEN <<>> ELSE nlargest(ranking, n)

\* get_average_congestion_by_period: the categories of pd.Categorical
period_order == <<"saebyeok", "chulgeun", "ojeon", "ohu", "toegeun", "jeonyeok", "simya">>

\* mean of the rows of one group, as a fraction of tenths
group_mean(rows) ==
    [num |-> SeqSum([k \in DOMAIN rows |-> rows[k].congestion.v]), den |-> Len(rows)]

\* pd.Categorical(values, categories=period_order): a value outside the
\* categories becomes NaN (written "NaN")
to_categorical(period) == IF period \in Range(period_order) THEN period ELSE "NaN"

\* get_average_congestion_by_period: one row per period value of the
\* non-missing rows (groupby), the label replaced by its category, sorted by
\* category with the NaN label last (sort_values, na_position='last')
get_average_congestion_by_period(frame) ==
    LET valid_df == valid_rows(frame)
        present == {valid_df[k].period : k \in DOMAIN valid_df}
        row(p) == [period |-> to_categorical(p),
                   avg_congestion |->
                        group_mean(SelectSeq(valid_df, LAMBDA r : r.period = p))]
        listed == SelectSeq(period_order, LAMBDA p : p \in present)
        others == present \ Range(period_order)
        rest == [i \in 1..Cardinality(others) |->
                    CHOOSE p \in others :
                        Cardinality({q \in others : StrRank(q) < StrRank(p)}) = i - 1]
    IN  IF Len(valid_df) = 0 THEN <<>>
        ELSE [i \in DOMAIN listed |-> row(listed[i])]
                \o [i \in DOMAIN rest |-> row(rest[i])]

SeqMin(xs) == CHOOSE m \in Range(xs) : \A x \in Range(xs) : m <= x

\* the values in ascending order
SortedValues(xs) ==
    StableSort(xs, [k \in DOMAIN xs |-> <<xs[k]>>])

\* Series.median(): the middle value, or the mean of the two middle values
median(xs) ==
    LET s == SortedValues(xs)
        n == Len(xs)
    IN  IF n % 2 = 1 THEN [num |-> s[(n + 1) \div 2], den |-> 1]
        ELSE [num |-> s[n \div 2] + s[(n \div 2) + 1], den |-> 2]

\* Series.std() (ddof=1), kept as its square: NaN for a single value,
\* otherwise (n*sum(x^2) - sum(x)^2) / (n*(n-1))
std(xs) ==
    LET n == Len(xs)
        s == SeqSum(xs)
        q == SeqSum([k \in DOMAIN xs |-> xs[k] * xs[k]])
    IN  IF n = 1 THEN [isna |-> TRUE, sq |-> [num |-> 0, den |-> 1]]
        ELSE [isna |-> FALSE, sq |-> [num |-> n * q - s * s, den |-> n * (n - 1)]]

\* the literal dict returned when no row is valid
ZeroStats ==
    [count |-> 0,
     mean |-> [num |-> 0, den |-> 1],
     median |-> [num |-> 0, den |-> 1],
     std |-> [isna |-> FALSE, sq |-> [num |-> 0, den |-> 1]],
     min |-> 0,
     max |-> 0,
     missing_pct |-> [num |-> 100, den |-> 1]]

\* the statistics with the missing share taken over the valid rows
get_congestion_stats_pct_of_valid(frame) ==
    LET valid_df == valid_rows(frame)
        congestion == [k \in DOMAIN valid_df |-> valid_df[k].congestion.v]
        missing == Len(SelectSeq(frame, LAMBDA r : r.is_missing))
    IN  IF Len(valid_df) = 0 THEN ZeroStats
        ELSE [count |-> Len(valid_df),
              mean |-> [num |-> SeqSum(congestion), den |-> Len(congestion)],
              median |-> median(congestion),
              std |-> std(congestion),
              min |-> SeqMin(congestion),
              max |-> SeqMax(congestion),
              missing_pct |-> [num |-> missing * 100, den |-> Len(valid_df)]]

\* get_congestion_stats: values in tenths; missing_pct is
\* (df['is_missing'].sum() / len(df)) * 100 as a fraction
get_congestion_stats(frame) ==
    LET valid_df == valid_rows(frame)
        congestion == [k \in DOMAIN valid_df |-> valid_df[k].congestion.v]
        missing == Len(SelectSeq(frame, LAMBDA r : r.is_missing))
    IN  IF Len(valid_df) = 0 THEN ZeroStats
        ELSE [count |-> Len(valid_df),
              mean |-> [num |-> SeqSum(congestion), den |-> Len(congestion)],
              median |-> median(congestion),
              std |-> std(congestion),
              min |-> SeqMin(congestion),
              max |-> SeqMax(congestion),
              missing_pct |-> [num |-> missing * 100, den |-> Len(frame)]]

\* a < b for two texts, as Python compares strings
TextLess(a, b) ==
    \/ \E i \in DOMAIN a :
            /\ i <= Len(b)
            /\ CharRank(a[i]) < CharRank(b[i])
            /\ \A j \in 1..(i - 1) : a[j] = b[j]
    \/ Len(a) < Len(b) /\ \A j \in DOMAIN a : a[j] = b[j]

\* avg >= mean + std for fractions avg, mean and a squared std; a comparison
\* with NaN is False
GeMeanPlusStd(avg, mean, sd) ==
    LET d == avg.num * mean.den - mean.num * avg.den
        dd == avg.den * mean.den
    IN  /\ ~sd.isna
        /\ d >= 0
        /\ d * d * sd.sq.den >= sd.sq.num * dd * dd

\* time_stats of get_peak_hours: groupby('time_slot') sorts the slots as
\* strings; mean and max of congestion, the first time_order of the group
time_stats_of(valid_df) ==
    LET slots == {valid_df[k].time_slot : k \in DOMAIN valid_df}
        sorted == [i \in 1..Cardinality(slots) |->
                    CHOOSE s \in slots :
                        Cardinality({t \in slots : TextLess(t, s)}) = i - 1]
    IN  [i \in DOMAIN sorted |->
            LET members == SelectSeq(valid_df, LAMBDA r : r.time_slot = sorted[i])
            IN  [time_slot |-> sorted[i],
                 avg_congestion |-> group_mean(members),
                 max_congestion |-> SeqMax([k \in DOMAIN members |->
                                                members[k].congestion.v]),
                 time_order |-> members[1].time_order]]

\* the default taken whenever the threshold is falsy (threshold or default)
peak_threshold_test_falsy(valid_df, threshold, avg) ==
    IF ~threshold.some \/ threshold.val = 0
    THEN LET congestion == [k \in DOMAIN valid_df |-> valid_df[k].congestion.v]
         IN  GeMeanPlusStd(avg,
                           [num |-> SeqSum(congestion), den |-> Len(congestion)],
                           std(congestion))
    ELSE avg.num >= threshold.val * avg.den

\* avg_congestion >= threshold, the threshold being the caller's (tenths) or,
\* when it is None, mean + std of the valid rows
peak_threshold_test(valid_df, threshold, avg) ==
    IF ~threshold.some
    THEN LET congestion == [k \in DOMAIN valid_df |-> valid_df[k].congestion.v]
         IN  GeMeanPlusStd(avg,
                           [num |-> SeqSum(congestion), den |-> Len(congestion)],
                           std(congestion))
    ELSE avg.num >= threshold.val * avg.den

get_peak_hours(frame, threshold) ==
    LET valid_df == valid_rows(frame)
        time_stats == time_stats_of(valid_df)
        peak_hours == SelectSeq(time_stats, LAMBDA t :
                            peak_threshold_test(valid_df, threshold, t.avg_congestion))
        sorted == StableSort(peak_hours,
                             [k \in DOMAIN peak_hours |-> <<peak_hours[k].time_order>>])
    IN  IF Len(valid_df) = 0 THEN <<>>
        ELSE [k \in DOMAIN sorted |->
                [time_slot |-> sorted[k].time_slot,
                 avg_congestion |-> sorted[k].avg_congestion,
                 max_congestion |-> sorted[k].max_congestion]]

(***************************************************************************)
(* The dashboard process: it loads the persisted dataset and answers       *)
(* queries.  Two families of datasets are queried: for the filter, tables  *)
(* whose ids vary; for the metrics, every filling of a two-slot table.     *)
(***************************************************************************)
QueryHeaders == {<<H530, H000>>, <<H0530, H530, H000>>}

FilterTables ==
    {Table(extra, R, o) : extra \in QueryHeaders, R \in 0..MaxViewRows,
                          o \in 0..(Len(CellPool) - 1)}

QCellPool == {<<"1", "0">>, <<" ", "3", "0", ".", "5", " ">>, <<"0", ".", "0">>, <<"x">>}

\* a raw table with the rows of IdPool picked by ids and the given cells
MetricTable(ids, cells) ==
    LET extra == <<H530, H000>>
    IN  [columns |-> id_cols \o extra,
         rows |-> [i \in DOMAIN ids |->
            [c \in Range(id_cols \o extra) |->
                IF c = COL_WEEKDAY THEN IdPool[ids[i]].weekday
                ELSE IF c = COL_LINE THEN IdPool[ids[i]].line
                ELSE IF c = COL_STATION_ID THEN IdPool[ids[i]].station_id
                ELSE IF c = COL_STATION THEN IdPool[ids[i]].station_name
                ELSE IF c = COL_DIRECTION THEN IdPool[ids[i]].direction
                ELSE cells[i][IndexOf(extra, c)]]]]

MetricTables ==
    UNION {{MetricTable(ids, cells) :
                ids \in {f \in [1..n -> DOMAIN IdPool] :
                            \A i, j \in 1..n : i < j => f[i] < f[j]},
                cells \in [1..n -> [1..2 -> QCellPool]]} : n \in 0..MaxViewRows}

WeekdayArgs == {NoneStr, Some(""), Some("jeonche"), Some("pyeongil")}

LineArgs == {NoneList, Some(<<>>), Some(<<"1hoseon">>), Some(<<"2hoseon", "3hoseon">>)}

StationArgs == {NoneList, Some(<<>>), Some(<<"A">>), Some(<<"B", "A">>)}

DirectionArgs == {NoneList, Some(<<>>), Some(<<"haseon">>)}

TimeRangeArgs == {NoneList} \cup {Some(<<lo, hi>>) : lo, hi \in 0..MaxOrder}

Aggregates == {"max", "mean", "sum"}

\* the state of the dashboard process once load_data has returned
Loaded(tables) ==
    /\ pc = "saved"
    /\ source = [exists |-> FALSE, decodes |-> {}, table |-> EmptyFrame]
    /\ df = EmptyFrame
    /\ time_cols = <<>>
    /\ time_map = <<>>
    /\ df_long = <<>>
    /\ report = NoReport
    /\ parquet \in {[exists |-> TRUE, rows |-> etl_output(t)] : t \in tables}
    /\ dataset = read_parquet(parquet.rows)
    /\ call = NoCall
    /\ result = <<>>
    /\ cache = Some(dataset)
    /\ reads = 1

InitFilter ==
    /\ Loaded(FilterTables)
    /\ view = dataset

\* the script runs top to bottom on every interaction; a rerun drops the
\* previous run's call and result, the loaded dataset stays
Rerun ==
    /\ call # NoCall
    /\ call' = NoCall
    /\ result' = <<>>
    /\ UNCHANGED <<etl_vars, dataset, view, load_vars>>

FilterData ==
    \E weekday \in WeekdayArgs, lines \in LineArgs, stations \in StationArgs,
       directions \in DirectionArgs, time_range \in TimeRangeArgs :
        /\ call = NoCall
        /\ call' = [op |-> "filter_data", weekday |-> weekday, lines |-> lines,
                    stations |-> stations, directions |-> directions,
                    time_range |-> time_range]
        /\ result' = filter_data(dataset, weekday, lines, stations, directions,
                                 time_range)
        /\ dataset' = argument_after("filter_data", dataset)
        /\ UNCHANGED <<etl_vars, view, load_vars>>

NextFilter ==
    \/ FilterData
    \/ Rerun

SpecFilter == InitFilter /\ [][NextFilter]_vars

\* the metrics are called on the dataset or on a filtered view of it
InitMetrics ==
    /\ Loaded(MetricTables)
    /\ view \in {filter_data(dataset, NoneStr, NoneList, NoneList, NoneList, tr) :
                    tr \in {NoneList, Some(<<1, 1>>)}}

MaxCongestionInfo ==
    /\ call = NoCall
    /\ call' = [op |-> "get_max_congestion_info"]
    /\ result' = get_max_congestion_info(view)
    /\ view' = argument_after("get_max_congestion_info", view)
    /\ UNCHANGED <<etl_vars, dataset, load_vars>>

TopNStations ==
    \E n \in 1..MaxN, time_range \in TimeRangeArgs, aggregate \in Aggregates :
        /\ call = NoCall
        /\ call' = [op |-> "get_top_n_stations", n |-> n,
                    time_range |-> time_range, aggregate |-> aggregate]
        /\ result' = get_top_n_stations(view, n, time_range, aggregate)
        /\ view' = argument_after("get_top_n_stations", view)
        /\ UNCHANGED <<etl_vars, dataset, load_vars>>

NextMetrics ==
    \/ MaxCongestionInfo
    \/ TopNStations
    \/ Rerun

SpecMetrics == InitMetrics /\ [][NextMetrics]_vars

(***************************************************************************)
(* The statistics of metrics.py, called on datasets whose slots spread     *)
(* over the periods of the day.                                            *)
(***************************************************************************)
MaxStatCols == 5    \* time columns of a table behind the statistics

\* the hours of the time columns of those tables, in header order
StatHours == <<5, 3, 8, 0, 18, 13, 21, 10, 1>>

HourHeader(h) == ToDigits(h) \o <<"si", "0", "0", "bun">>

MissingCells == << <<"0", ".", "0">>, <<"x">> >>

ValueCells == << <<"1", "0">>, <<"1", "2", ".", "5">>, <<"1", "2">> >>

\* a raw table of R rows and T hourly columns whose first m cells are
\* missing and whose other cells take the values in turn from offset o
StatTable(T, R, m, o) ==
    LET extra == [i \in 1..T |-> HourHeader(StatHours[i])]
    IN  [columns |-> id_cols \o extra,
         rows |-> [i \in 1..R |->
            [c \in Range(id_cols \o extra) |->
                IF c = COL_WEEKDAY THEN IdPool[i].weekday
                ELSE IF c = COL_LINE THEN IdPool[i].line
                ELSE IF c = COL_STATION_ID THEN IdPool[i].station_id
                ELSE IF c = COL_STATION THEN IdPool[i].station_name
                ELSE IF c = COL_DIRECTION THEN IdPool[i].direction
                ELSE LET n == (i - 1) * T + IndexOf(extra, c)
                     IN  IF n <= m THEN MissingCells[(n % Len(MissingCells)) + 1]
                         ELSE ValueCells[((o + n) % Len(ValueCells)) + 1]]]]

StatTables ==
    UNION {{StatTable(T, R, m, o) : m \in 0..(R * T), o \in 0..(Len(ValueCells) - 1)} :
                T \in 0..(IF MaxStatCols < Len(StatHours) THEN MaxStatCols
                          ELSE Len(StatHours)),
                R \in 1..(IF MaxViewRows < Len(IdPool) THEN MaxViewRows
                          ELSE Len(IdPool))}

\* thresholds a caller passes to get_peak_hours, in tenths
ThresholdArgs == {[some |-> FALSE, val |-> 0], Some(0), Some(100), Some(125), Some(305)}

InitStats ==
    /\ Loaded(MetricTables \cup StatTables)
    /\ view \in {filter_data(dataset, NoneStr, NoneList, NoneList, NoneList, tr) :
                    tr \in {NoneList, Some(<<1, 1>>)}}

CongestionStats ==
    /\ call = NoCall
    /\ call' = [op |-> "get_congestion_stats"]
    /\ result' = get_congestion_stats(view)
    /\ view' = argument_after("get_congestion_stats", view)
    /\ UNCHANGED <<etl_vars, dataset, load_vars>>

AverageCongestionByPeriod ==
    /\ call = NoCall
    /\ call' = [op |-> "get_average_congestion_by_period"]
    /\ result' = get_average_congestion_by_period(view)
    /\ view' = argument_after("get_average_congestion_by_period", view)
    /\ UNCHANGED <<etl_vars, dataset, load_vars>>

PeakHours ==
    \E threshold \in ThresholdArgs :
        /\ call = NoCall
        /\ call' = [op |-> "get_peak_hours", threshold |-> threshold]
        /\ result' = get_peak_hours(view, threshold)
        /\ view' = argument_after("get_peak_hours", view)
        /\ UNCHANGED <<etl_vars, dataset, load_vars>>

NextStats ==
    \/ CongestionStats
    \/ AverageCongestionByPeriod
    \/ PeakHours
    \/ Rerun

SpecStats == InitStats /\ [][NextStats]_vars

(***************************************************************************)
(* load_data and its memo.                                                 *)
(***************************************************************************)
MaxReads == 3   \* reads of the persisted file after which load_data is not called again

\* load_data without the decorator: the body runs on every call
load_data_uncached(entry, file) ==
    IF file.exists
    THEN [ran |-> TRUE, raised |-> FALSE, value |-> read_parquet(file.rows),
          entry |-> Some(read_parquet(file.rows))]
    ELSE [ran |-> TRUE, raised |-> TRUE, value |-> <<>>, entry |-> entry]

\* @st.cache_data on a function without parameters: one entry for the
\* process.  A hit returns the stored value without running the body; a miss
\* runs pd.read_parquet and stores what it returns; when read_parquet raises
\* (no file) nothing is stored
load_data(entry, file) ==
    IF entry.some
    THEN [ran |-> FALSE, raised |-> FALSE, value |-> entry.val, entry |-> entry]
    ELSE IF file.exists
    THEN [ran |-> TRUE, raised |-> FALSE, value |-> read_parquet(file.rows),
          entry |-> Some(read_parquet(file.rows))]
    ELSE [ran |-> TRUE, raised |-> TRUE, value |-> <<>>, entry |-> entry]

\* the files the batch job can leave under data/processed
LoadFiles == {[exists |-> TRUE, rows |-> etl_output(t)] : t \in FilterTables}

\* the dashboard process at its start: nothing loaded, the file written or not
InitLoad ==
    /\ pc = "saved"
    /\ source = [exists |-> FALSE, decodes |-> {}, table |-> EmptyFrame]
    /\ df = EmptyFrame
    /\ time_cols = <<>>
    /\ time_map = <<>>
    /\ df_long = <<>>
    /\ report = NoReport
    /\ parquet \in LoadFiles \cup {NoFile}
    /\ dataset = <<>>
    /\ view = <<>>
    /\ call = NoCall
    /\ result = <<>>
    /\ cache = NoCache
    /\ reads = 0

\* df = load_data() at the top of the script
LoadData ==
    /\ call = NoCall
    /\ reads < MaxReads
    /\ LET r == load_data(cache, parquet)
       IN  /\ call' = [op |-> "load_data", raised |-> r.raised]
           /\ cache' = r.entry
           /\ reads' = IF r.ran /\ ~r.raised THEN reads + 1 ELSE reads
           /\ dataset' = IF r.raised THEN dataset ELSE r.value
    /\ result' = <<>>
    /\ UNCHANGED <<etl_vars, view>>

\* the batch job runs again while the dashboard process lives and replaces
\* the persisted file
BatchJobRun ==
    /\ \E file \in LoadFiles :
        /\ file # parquet
        /\ parquet' = file
    /\ UNCHANGED <<pc, source, df, time_cols, time_map, df_long, report>>
    /\ UNCHANGED query_vars

NextLoad ==
    \/ LoadData
    \/ BatchJobRun
    \/ Rerun

SpecLoad == InitLoad /\ [][NextLoad]_vars

(***************************************************************************)
(* A session of the dashboard: any query, one after the other.             *)
(***************************************************************************)
SessionTables ==
    {Table(extra, R, o) : extra \in QueryHeaders, R \in 1..MaxViewRows, o \in {0, 2}}

InitSession ==
    /\ Loaded(SessionTables)
    /\ view \in {filter_data(dataset, NoneStr, NoneList, NoneList, NoneList, tr) :
                    tr \in {NoneList, Some(<<1, 1>>)}}

PrepareDownload ==
    /\ call = NoCall
    /\ call' = [op |-> "prepare_download_data"]
    /\ result' = prepare_download_data(view)
    /\ view' = argument_after("prepare_download_data", view)
    /\ UNCHANGED <<etl_vars, dataset, load_vars>>

NextSession ==
    \/ FilterData
    \/ MaxCongestionInfo
    \/ TopNStations
    \/ AverageCongestionByPeriod
    \/ CongestionStats
    \/ PeakHours
    \/ PrepareDownload
    \/ Rerun

SpecSession == InitSession /\ [][NextSession]_vars

(***************************************************************************)
(* Properties of the batch job.                                            *)
(***************************************************************************)
\* the headers of the pools that have the form <digits>si<digits>bun at
\* their start, listed by hand
TimeHeaders == {H530, H0530, H530_1, H000} \cup HourHeaders

\* positions of main() at which the long frame has been built
Reshaped == {"unpivoted", "cleaned", "featured", "flagged", "renamed",
             "validated", "saved"}

RawR == Len(source.table.rows)

RawT == Cardinality({i \in DOMAIN source.table.columns :
                        source.table.columns[i] \in TimeHeaders})

\* C1: when no column of the source header is a time column, the batch job
\* aborts before the long frame is built: it never reaches the reshaping
\* stages or save_parquet, and nothing is persisted.
C1_ZeroTimeColumnsAbort ==
    RawT = 0 => (pc \notin Reshaped /\ ~parquet.exists)

\* C2: the long frame has exactly R x T rows after unpivot_time_columns, at
\* every later stage, and in the rows handed to the parquet writer.
C2_RowCount ==
    /\ pc \in Reshaped => Len(df_long) = RawR * RawT
    /\ pc = "saved" => Len(parquet.rows) = RawR * RawT

\* C2 witness: a saved table of two rows and two time columns that holds an
\* unparsable cell
C2_Witness ==
    /\ pc = "saved"
    /\ RawR >= 2
    /\ RawT >= 2
    /\ \E k \in DOMAIN parquet.rows : parquet.rows[k].congestion.isna

\* C3: the k-th detected time column (header order, from 0) gets order k, the
\* orders are exactly 0..T-1, and two rows of the dataset with different
\* time_slot have different time_order.
C3_TimeOrder ==
    /\ pc \in (Reshaped \cup {"time_map"}) =>
        /\ DOMAIN time_map = Range(df.columns) \cap TimeHeaders
        /\ \A i \in DOMAIN df.columns :
              df.columns[i] \in TimeHeaders =>
                 time_map[df.columns[i]].order =
                    Cardinality({j \in 1..(i - 1) : df.columns[j] \in TimeHeaders})
        /\ {time_map[c].order : c \in DOMAIN time_map} = 0..(RawT - 1)
    /\ pc = "saved" =>
        \A a, b \in DOMAIN parquet.rows :
            parquet.rows[a].time_slot # parquet.rows[b].time_slot
                => parquet.rows[a].time_order # parquet.rows[b].time_order

\* C3 witness: a saved dataset with three time columns around a column that
\* is no time column
C3_Witness ==
    /\ pc = "saved"
    /\ RawT >= 2
    /\ RawR >= 1
    /\ \E i, j \in DOMAIN df.columns :
          /\ i < j
          /\ df.columns[i] = BIGO
          /\ df.columns[j] \in TimeHeaders
    /\ \E a, b \in DOMAIN parquet.rows :
          parquet.rows[a].time_order = 0 /\ parquet.rows[b].time_order = 1

\* the number each parsable cell of CellPool stands for, in tenths
CellValue(cell) ==
    IF cell = <<"1", "0">> THEN 100
    ELSE IF cell = <<" ", "3", "0", ".", "5", " ">> THEN 305
    ELSE IF cell = <<"1", "2", "0">> THEN 1200
    ELSE 0

\* C4: is_missing holds exactly when congestion is absent or 0.0; a cell
\* that is no number gives a kept row with absent congestion (not 0) and
\* is_missing, and the job does not abort on it.
C4_MissingFlag ==
    /\ pc \in {"flagged", "renamed", "validated", "saved"} =>
        \A k \in DOMAIN df_long :
            df_long[k].is_missing <=>
                (df_long[k].congestion.isna \/ df_long[k].congestion.v = 0)
    /\ pc = "saved" =>
        /\ \A k \in DOMAIN parquet.rows :
              parquet.rows[k].is_missing <=>
                 (parquet.rows[k].congestion.isna \/ parquet.rows[k].congestion.v = 0)
        /\ Cardinality({k \in DOMAIN parquet.rows : parquet.rows[k].congestion.isna})
              = Cardinality({x \in (DOMAIN df.rows) \X (DOMAIN df.columns) :
                                /\ df.columns[x[2]] \in TimeHeaders
                                /\ df.rows[x[1]][df.columns[x[2]]] \in Unparsable})
    /\ pc \in {"unpivoted", "cleaned", "featured", "flagged"} =>
        \A k \in DOMAIN df_long :
            LET cell == source.table.rows[((k - 1) % RawR) + 1][df_long[k].time_slot_raw]
            IN  /\ pc # "unpivoted" =>
                    IF cell \in Unparsable
                    THEN df_long[k].congestion.isna
                    ELSE df_long[k].congestion = [isna |-> FALSE, v |-> CellValue(cell)]
                /\ (pc = "flagged" /\ cell \in Unparsable) => df_long[k].is_missing
    /\ (source.exists /\ source.decodes # {}) => pc # "aborted"

\* C4 witness: a saved dataset holding an unparsable cell, a zero and a
\* positive reading
C4_Witness ==
    /\ pc = "saved"
    /\ \E a, b, c \in DOMAIN parquet.rows :
          /\ parquet.rows[a].congestion.isna /\ parquet.rows[a].is_missing
          /\ ~parquet.rows[b].congestion.isna /\ parquet.rows[b].congestion.v = 0
          /\ parquet.rows[b].is_missing
          /\ ~parquet.rows[c].congestion.isna /\ parquet.rows[c].congestion.v > 0
          /\ ~parquet.rows[c].is_missing

\* the period of each hour of the day, as the claim lists it
PeriodOfHour(h) ==
    IF h = 0 THEN "simya"
    ELSE IF h \in 1..4 THEN "gita"
    ELSE IF h \in 5..6 THEN "saebyeok"
    ELSE IF h \in 7..8 THEN "chulgeun"
    ELSE IF h \in 9..11 THEN "ojeon"
    ELSE IF h \in 12..17 THEN "ohu"
    ELSE IF h \in 18..19 THEN "toegeun"
    ELSE "jeonyeok"

\* the two-digit hour that starts an "HH:MM" text
LeadingHour(slot) == DigitVal(slot[1]) * 10 + DigitVal(slot[2])

\* C5: hour is the integer before the colon of time_slot and period depends
\* on hour alone, by the table: 0 simya, 1-4 gita, 5-6 saebyeok, 7-8
\* chulgeun, 9-11 ojeon, 12-17 ohu, 18-19 toegeun, 20-23 jeonyeok.
C5_Period ==
    /\ pc \in {"featured", "flagged", "renamed", "validated"} =>
        \A k \in DOMAIN df_long :
            /\ df_long[k].time_slot[3] = ":" =>
                  df_long[k].hour = LeadingHour(df_long[k].time_slot)
            /\ df_long[k].hour \in 0..23 => df_long[k].period = PeriodOfHour(df_long[k].hour)
    /\ pc = "saved" =>
        /\ \A k \in DOMAIN parquet.rows :
              /\ parquet.rows[k].time_slot[3] = ":" =>
                    parquet.rows[k].hour = LeadingHour(parquet.rows[k].time_slot)
              /\ parquet.rows[k].hour \in 0..23 =>
                    parquet.rows[k].period = PeriodOfHour(parquet.rows[k].hour)
        /\ \A a, b \in DOMAIN parquet.rows :
              parquet.rows[a].hour = parquet.rows[b].hour
                 => parquet.rows[a].period = parquet.rows[b].period

\* C5 witness: a saved row of hour 4, in the unclassified bucket
C5_Witness ==
    /\ pc = "saved"
    /\ \E k \in DOMAIN parquet.rows :
          parquet.rows[k].hour = 4 /\ parquet.rows[k].period = "gita"

(***************************************************************************)
(* Properties of the query layer.                                          *)
(***************************************************************************)
\* the conjunction of the active predicates of a filter_data call c on row r
Matches(r, c) ==
    /\ \/ ~c.weekday.some
       \/ c.weekday.val = ""
       \/ c.weekday.val = "jeonche"
       \/ r.weekday = c.weekday.val
    /\ \/ ~c.lines.some
       \/ c.lines.val = <<>>
       \/ \E i \in DOMAIN c.lines.val : c.lines.val[i] = r.line
    /\ \/ ~c.stations.some
       \/ c.stations.val = <<>>
       \/ \E i \in DOMAIN c.stations.val : c.stations.val[i] = r.station_name
    /\ \/ ~c.directions.some
       \/ c.directions.val = <<>>
       \/ \E i \in DOMAIN c.directions.val : c.directions.val[i] = r.direction
    /\ \/ ~c.time_range.some
       \/ (c.time_range.val[1] <= r.time_order /\ r.time_order <= c.time_range.val[2])

\* C6: filter_data returns exactly the rows of the dataset that satisfy all
\* active predicates (time range inclusive at both ends), each once and in
\* the dataset's order; stations = ['A'] returns only rows of station A; no
\* match gives an empty view.
C6_FilterExact ==
    call.op = "filter_data" =>
        /\ \A k \in DOMAIN dataset :
              Cardinality({i \in DOMAIN result : result[i] = dataset[k]})
                 = IF Matches(dataset[k], call) THEN 1 ELSE 0
        /\ \A i \in DOMAIN result : \E k \in DOMAIN dataset : dataset[k] = result[i]
        /\ \A i, j \in DOMAIN result : i < j => result[i].index < result[j].index
        /\ call.stations = Some(<<"A">>) =>
              \A i \in DOMAIN result : result[i].station_name = "A"

\* C6 witness: a call with station A, a weekday and a time range that keeps
\* some rows of station A, drops others, and drops the rows of station B
C6_Witness ==
    /\ call.op = "filter_data"
    /\ call.stations = Some(<<"A">>)
    /\ call.weekday = Some("pyeongil")
    /\ call.time_range = Some(<<1, 1>>)
    /\ Len(result) >= 1
    /\ \E k \in DOMAIN dataset :
          dataset[k].station_name = "A" /\ dataset[k].time_order = 0
    /\ \E k \in DOMAIN dataset : dataset[k].station_name = "B"

\* C7: a call with lines = [] returns what the same call with lines omitted
\* returns; likewise stations = [] and directions = [].
C7_EmptyMeansAll ==
    call.op = "filter_data" =>
        /\ call.lines = Some(<<>>) =>
              result = filter_data(dataset, call.weekday, NoneList, call.stations,
                                   call.directions, call.time_range)
        /\ call.stations = Some(<<>>) =>
              result = filter_data(dataset, call.weekday, call.lines, NoneList,
                                   call.directions, call.time_range)
        /\ call.directions = Some(<<>>) =>
              result = filter_data(dataset, call.weekday, call.lines, call.stations,
                                   NoneList, call.time_range)

\* C7 witness: three empty lists and every row of a dataset of four or more
\* rows returned
C7_Witness ==
    /\ call.op = "filter_data"
    /\ call.lines = Some(<<>>)
    /\ call.stations = Some(<<>>)
    /\ call.directions = Some(<<>>)
    /\ Len(dataset) >= 4
    /\ result = dataset

\* the positions of the view that a get_top_n_stations call c ranks: not
\* missing and inside the optional range
Ranked(c) ==
    {k \in DOMAIN view :
        /\ ~view[k].is_missing
        /\ \/ ~c.time_range.some
           \/ (c.time_range.val[1] <= view[k].time_order
               /\ view[k].time_order <= c.time_range.val[2])}

RankedGroups(c) == {<<view[k].station_name, view[k].line>> : k \in Ranked(c)}

GroupMembers(c, g) == {k \in Ranked(c) : <<view[k].station_name, view[k].line>> = g}

RECURSIVE SumOfRows(_)
SumOfRows(S) ==
    IF S = {} THEN 0
    ELSE LET k == CHOOSE x \in S : TRUE
         IN  view[k].congestion.v + SumOfRows(S \ {k})

\* the aggregate of a group, as a fraction
GroupValue(c, g) ==
    LET S == GroupMembers(c, g)
    IN  IF c.aggregate = "max"
        THEN [num |-> CHOOSE m \in {view[k].congestion.v : k \in S} :
                         \A k \in S : view[k].congestion.v <= m,
              den |-> 1]
        ELSE IF c.aggregate = "sum" THEN [num |-> SumOfRows(S), den |-> 1]
        ELSE [num |-> SumOfRows(S), den |-> Cardinality(S)]

\* C8: get_top_n_stations returns min(n, G) rows, G the number of
\* (station_name, line) groups with a non-missing row inside the range; each
\* row is a different group with its aggregate, the rows are in non-increasing
\* order, and no group left out has a greater value than a returned one.
C8_TopN ==
    call.op = "get_top_n_stations" =>
        LET G == RankedGroups(call)
            key(i) == <<result[i].station_name, result[i].line>>
        IN  /\ Len(result) = IF call.n < Cardinality(G) THEN call.n ELSE Cardinality(G)
            /\ \A i \in DOMAIN result :
                  /\ key(i) \in G
                  /\ FracEq(result[i].congestion_value, GroupValue(call, key(i)))
            /\ \A i, j \in DOMAIN result :
                  i < j => /\ key(i) # key(j)
                           /\ ~FracGt(result[j].congestion_value,
                                      result[i].congestion_value)
            /\ \A g \in G :
                  (\A i \in DOMAIN result : key(i) # g) =>
                     \A i \in DOMAIN result :
                        ~FracGt(GroupValue(call, g), result[i].congestion_value)

\* C8 witness: the mean ranking of two groups, one returned and one left out
\* with a smaller mean, over a view that also holds missing rows
C8_Witness ==
    /\ call.op = "get_top_n_stations"
    /\ call.aggregate = "mean"
    /\ call.n = 1
    /\ Cardinality(RankedGroups(call)) = 2
    /\ Len(result) = 1
    /\ \E k \in DOMAIN view : view[k].is_missing
    /\ \E g \in RankedGroups(call) :
          FracGt(result[1].congestion_value, GroupValue(call, g))
    /\ \E k \in Ranked(call) :
          Cardinality(GroupMembers(call, <<view[k].station_name, view[k].line>>)) = 2

\* C9: on a view with no rows, or with only missing rows, the KPI is the
\* sentinel: 0.0 and "-" in every text field.
C9_Sentinel ==
    (call.op = "get_max_congestion_info"
        /\ \A k \in DOMAIN view : view[k].is_missing)
    => /\ result.max_value = [isna |-> FALSE, v |-> 0]
       /\ result.time_slot = <<"-">>
       /\ result.station_name = "-"
       /\ result.line = "-"
       /\ result.direction = "-"
       /\ result.weekday = "-"

\* C9 witness: the KPI of a view of several rows, all missing, one of them a
\* zero reading and one unparsable
C9_Witness ==
    /\ call.op = "get_max_congestion_info"
    /\ Len(view) >= 2
    /\ \A k \in DOMAIN view : view[k].is_missing
    /\ \E k \in DOMAIN view : ~view[k].congestion.isna
    /\ \E k \in DOMAIN view : view[k].congestion.isna
    /\ result.station_name = "-"

\* C10: on a view with a non-missing row the KPI carries the fields of the
\* first row, in view order, among the non-missing rows of maximal
\* congestion; a missing row is never returned.
C10_FirstMax ==
    (call.op = "get_max_congestion_info"
        /\ \E k \in DOMAIN view : ~view[k].is_missing)
    => \E k \in DOMAIN view :
          /\ ~view[k].is_missing
          /\ \A j \in DOMAIN view :
                ~view[j].is_missing =>
                   /\ view[j].congestion.v <= view[k].congestion.v
                   /\ (view[j].congestion.v = view[k].congestion.v => k <= j)
          /\ result.max_value = view[k].congestion
          /\ result.time_slot = view[k].time_slot
          /\ result.station_name = view[k].station_name
          /\ result.line = view[k].line
          /\ result.direction = view[k].direction
          /\ result.weekday = view[k].weekday

\* C10 witness: the maximum is reached by two rows of different stations,
\* after a missing row, and the KPI names the earlier one
C10_Witness ==
    /\ call.op = "get_max_congestion_info"
    /\ \E i, j, k \in DOMAIN view :
          /\ i < j /\ j < k
          /\ view[i].is_missing
          /\ ~view[j].is_missing /\ ~view[k].is_missing
          /\ view[j].congestion = view[k].congestion
          /\ view[j].station_name # view[k].station_name
          /\ \A m \in DOMAIN view :
                ~view[m].is_missing => view[m].congestion.v <= view[j].congestion.v
          /\ result.station_name = view[j].station_name
          /\ result.time_slot = view[j].time_slot

(***************************************************************************)
(* Properties of the statistics.                                           *)
(***************************************************************************)
MissingCount(frame) == Cardinality({k \in DOMAIN frame : frame[k].is_missing})

\* C11: get_congestion_stats reports count = the number of non-missing rows
\* and missing_pct = missing rows / all rows of the view x 100; a view
\* without a non-missing row (a view of zero rows too) gives count 0,
\* mean, median, std, min and max 0.0 and missing_pct 100.0.
C11_Stats ==
    call.op = "get_congestion_stats" =>
        LET N == Len(view)
            M == MissingCount(view)
        IN  IF N - M = 0
            THEN /\ result.count = 0
                 /\ result.mean.num = 0
                 /\ result.median.num = 0
                 /\ ~result.std.isna /\ result.std.sq.num = 0
                 /\ result.min = 0
                 /\ result.max = 0
                 /\ result.missing_pct.num = 100 * result.missing_pct.den
            ELSE /\ result.count = N - M
                 /\ result.missing_pct.num * N = 100 * M * result.missing_pct.den

\* ten rows of which three are missing give 30.0
C11_Witness ==
    /\ call.op = "get_congestion_stats"
    /\ Len(view) = 10
    /\ MissingCount(view) = 3
    /\ result.count = 7
    /\ result.missing_pct.num = 30 * result.missing_pct.den

\* a view of zero rows gives the zeros and 100.0
C11_WitnessEmpty ==
    /\ call.op = "get_congestion_stats"
    /\ Len(view) = 0
    /\ result.missing_pct.num = 100 * result.missing_pct.den

\* the periods of the canonical sequence that have a non-missing row in the
\* frame, in the order of the sequence
CanonicalPresent(frame) ==
    SelectSeq(period_order, LAMBDA p :
        \E k \in DOMAIN frame : ~frame[k].is_missing /\ frame[k].period = p)

\* C12: get_average_congestion_by_period returns one row per period of the
\* canonical sequence saebyeok, chulgeun, ojeon, ohu, toegeun, jeonyeok,
\* simya that has a non-missing row, in that order, with the mean of the
\* period's non-missing rows; the unclassified rows (gita, hours 1-4) are
\* left out, so no row of the result stands for a period outside the
\* sequence.
C12_PeriodAverage ==
    call.op = "get_average_congestion_by_period" =>
        LET expected == CanonicalPresent(view)
        IN  /\ Len(result) = Len(expected)
            /\ \A i \in DOMAIN result :
                /\ result[i].period \in Range(period_order)
                /\ i <= Len(expected) => result[i].period = expected[i]
                /\ LET S == {k \in DOMAIN view :
                                ~view[k].is_missing
                                /\ to_categorical(view[k].period) = result[i].period}
                   IN  result[i].avg_congestion.num * Cardinality(S)
                            = SumOfRows(S) * result[i].avg_congestion.den

\* the non-missing rows of the view in one time slot
SlotMembers(slot) ==
    {k \in DOMAIN view : ~view[k].is_missing /\ view[k].time_slot = slot}

\* the slots whose mean over the non-missing rows reaches the threshold
PeakSlots(threshold) ==
    {s \in {view[k].time_slot : k \in DOMAIN view} :
        /\ SlotMembers(s) # {}
        /\ SumOfRows(SlotMembers(s)) >= threshold * Cardinality(SlotMembers(s))}

\* C13: with a threshold given by the caller (0 included) get_peak_hours
\* returns exactly the time slots whose mean over the non-missing rows is
\* >= threshold, one row per slot with the slot's mean and max, in strictly
\* ascending time_order; a slot with only missing rows has no row and a view
\* without a non-missing row gives the empty table.
C13_PeakHours ==
    (call.op = "get_peak_hours" /\ call.threshold.some) =>
        /\ {result[i].time_slot : i \in DOMAIN result} = PeakSlots(call.threshold.val)
        /\ Len(result) = Cardinality(PeakSlots(call.threshold.val))
        /\ \A i \in DOMAIN result :
            LET S == SlotMembers(result[i].time_slot)
            IN  /\ result[i].avg_congestion.num * Cardinality(S)
                        = SumOfRows(S) * result[i].avg_congestion.den
                /\ \E k \in S : view[k].congestion.v = result[i].max_congestion
                /\ \A k \in S : view[k].congestion.v <= result[i].max_congestion
        /\ \A i, j \in DOMAIN result :
            i < j => \A a \in SlotMembers(result[i].time_slot),
                        b \in SlotMembers(result[j].time_slot) :
                            view[a].time_order < view[b].time_order

\* threshold 0 is taken as given: every slot with a non-missing row is
\* returned, among them one whose mean is below mean + std, while a slot
\* with only missing rows is left out; the slots come in header order, which
\* is not their order as strings
C13_Witness ==
    /\ call.op = "get_peak_hours"
    /\ call.threshold = Some(0)
    /\ Len(result) >= 3
    /\ \E i, j \in DOMAIN result :
            i < j /\ TextLess(result[j].time_slot, result[i].time_slot)
    /\ \E k \in DOMAIN view : SlotMembers(view[k].time_slot) = {}
    /\ result # get_peak_hours(view, [some |-> FALSE, val |-> 0])

\* the boundary is inclusive: a slot whose mean equals the threshold is returned
C13_WitnessBoundary ==
    /\ call.op = "get_peak_hours"
    /\ call.threshold = Some(125)
    /\ \E i \in DOMAIN result :
            result[i].avg_congestion.num = 125 * result[i].avg_congestion.den
    /\ Len(result) < Cardinality({s \in {view[k].time_slot : k \in DOMAIN view} :
                                    SlotMembers(s) # {}})

C15_ReadOnce ==
    [][/\ reads' <= 1
       /\ (reads >= 1 /\ call'.op = "load_data") =>
            (~call'.raised /\ dataset' = dataset /\ reads' = reads)]_vars

\* load_data returned after the file was replaced: the table of the first
\* load, not the file's rows
C15_Witness ==
    /\ call.op = "load_data"
    /\ reads = 1
    /\ parquet.exists
    /\ dataset # read_parquet(parquet.rows)

(***************************************************************************)
(* Properties of the time slots.                                           *)
(***************************************************************************)
\* C16: distinct detected time columns normalise to distinct time_slot
\* texts: a saved dataset with at least one row per column holds as many
\* distinct time_slot values as the header has time columns, each time_slot
\* goes with one time_order only, and the slot -> order dict of
\* get_time_order_mapping has an entry for every time column.
C16_DistinctSlots ==
    (pc = "saved" /\ RawR >= 1) =>
        /\ Cardinality({parquet.rows[k].time_slot : k \in DOMAIN parquet.rows}) = RawT
        /\ \A a, b \in DOMAIN parquet.rows :
                parquet.rows[a].time_slot = parquet.rows[b].time_slot
                    => parquet.rows[a].time_order = parquet.rows[b].time_order
        /\ LET mapping == get_time_order_mapping(read_parquet(parquet.rows))
           IN  {mapping[slot] : slot \in DOMAIN mapping} = 0..(RawT - 1)

(***************************************************************************)
(* Properties of the download.                                             *)
(***************************************************************************)
\* the time_order the view holds for a row of the download, found by the
\* row's index label
OrderInView(r) == (CHOOSE v \in Range(view) : v.index = r.index).time_order

DownloadColumns == {"index", "weekday", "line", "station_name", "direction",
                    "time_slot", "congestion", "hour", "period"}

\* C17: the table of prepare_download_data has the rows of the view (as
\* many, with the columns weekday, line, station_name, direction, time_slot,
\* congestion, hour, period under the view's index) and, within each
\* (line, station_name, weekday, direction) group, the rows in ascending
\* time_order of the view, also when an after-midnight slot such as 00:00 is
\* the last column of the header.
C17_DownloadOrder ==
    call.op = "prepare_download_data" =>
        /\ Len(result) = Len(view)
        /\ \A i \in DOMAIN result : DOMAIN result[i] = DownloadColumns
        /\ \A i, j \in DOMAIN result :
            (/\ i < j
             /\ result[i].line = result[j].line
             /\ result[i].station_name = result[j].station_name
             /\ result[i].weekday = result[j].weekday
             /\ result[i].direction = result[j].direction)
                => OrderInView(result[i]) <= OrderInView(result[j])

====
